---- MODULE Spec2Model ----
(***************************************************************************)
(* A model of omniconfig (src/omniconfig/__init__.py): configuration       *)
(* classes built by the metaclass ConfigMeta, their singleton instances,   *)
(* environment overrides, the argparse surface and the dict import/export. *)
(***************************************************************************)
EXTENDS Integers, Sequences, FiniteSets, TLC

(***************************************************************************)
(* Bounds of the model.                                                    *)
(***************************************************************************)
\* objects that construction may create in one behaviour
MaxObjs == 2
\* invocations of a default factory recorded for one parameter of one object
MaxCalls == 2
\* flags on one parsed command line
MaxArgv == 1

Threads == {1, 2}

(***************************************************************************)
(* Python values.  Every value is a record of the same shape, so that any  *)
(* two values can be compared: k is the runtime type, n the number (or the *)
(* identity of a function or object), s the text.                          *)
(***************************************************************************)
NoneV == [k |-> "NoneType", n |-> 0, s |-> ""]
IntV(n) == [k |-> "int", n |-> n, s |-> ""]
StrV(s) == [k |-> "str", n |-> 0, s |-> s]
\* a zero-argument function (a default factory), identified by n
FuncV(n) == [k |-> "function", n |-> n, s |-> ""]
\* an instance of some other class, identified by n
ObjV(n) == [k |-> "object", n |-> n, s |-> ""]

\* values of the other built-in types, identified by n
BoolV(n) == [k |-> "bool", n |-> n, s |-> ""]
LongV(n) == [k |-> "long", n |-> n, s |-> ""]
FloatV(n) == [k |-> "float", n |-> n, s |-> ""]
ListV(n) == [k |-> "list", n |-> n, s |-> ""]
TupleV(n) == [k |-> "tuple", n |-> n, s |-> ""]
DictV(n) == [k |-> "dict", n |-> n, s |-> ""]

\* callable(value), line 68
callable(v) == v.k = "function"

\* The value the factory FuncV(f) returns on its (i+1)-th invocation on behalf
\* of one object: a factory is free to return something new on every call.
FactoryResult(f, i) == IntV(10 * f + i)

\* bool(x) of a string or of None, as used by `a and b` on line 95
Truthy(s) == s # ""

(***************************************************************************)
(* Converters (the type_ field of a Parameter).                            *)
(***************************************************************************)
\* int(s): the decimal literals the model uses; any other text is a ValueError
IntLiteral == [s \in {"5", "7"} |-> IF s = "5" THEN 5 ELSE 7]

\* type_(s) as line 96 calls it.  type_ = None is not callable: TypeError.
CallType(type_, s) ==
    CASE type_ = "int" ->
            IF s \in DOMAIN IntLiteral
            THEN [exc |-> "", val |-> IntV(IntLiteral[s])]
            ELSE [exc |-> "ValueError", val |-> NoneV]
      [] type_ = "str" -> [exc |-> "", val |-> StrV(s)]
      [] OTHER -> [exc |-> "TypeError", val |-> NoneV]

(***************************************************************************)
(* Parameter, lines 11-24: an immutable 4-tuple.  envvar = "" stands for   *)
(* both None and the empty name, which line 95 treats alike; type_ =       *)
(* "None" is the default type_=None.                                       *)
(***************************************************************************)
Parameter(value, type_, docstring, envvar) ==
    [value |-> value, type_ |-> type_, docstring |-> docstring, envvar |-> envvar]

\* a fresh Parameter(v) in place of _replace: the other fields fall back to
\* their defaults
ReplaceFresh(param, v) == Parameter(v, "None", "", "")

\* namedtuple._replace(value=v), lines 61 and 131: a new tuple, self untouched
Replace(param, v) == [param EXCEPT !.value = v]

(***************************************************************************)
(* Class statements.  A class body binds names to Parameter(...) objects   *)
(* or to other (raw) values; ParamPool holds the Parameter objects the     *)
(* model's class bodies use, and ParamV(i) is the i-th of them as a value. *)
(***************************************************************************)
ParamPool ==
    << Parameter(IntV(1), "int", "port doc", "APP_PORT"),
       Parameter(FuncV(1), "int", "key doc", "APP_KEY"),
       Parameter(StrV("m"), "None", "m doc", "") >>

ParamV(i) == [k |-> "Parameter", n |-> i, s |-> ""]

ParamAttr(i) == [isParam |-> TRUE, raw |-> ParamV(i)]
RawAttr(v) == [isParam |-> FALSE, raw |-> v]

\* isinstance(value, Parameter), line 64
IsParameter(a) == a.isParam

\* the Parameter a class-body attribute is, line 67
ParamOf(a) == ParamPool[a.raw.n]

Names == {"port", "key"}
EnvVars == {"APP_PORT", "APP_KEY"}
EnvStrings == {"", "7", "x"}

(***************************************************************************)
(* ConfigMeta.__new__, lines 44-75, on the classes `cl` defined so far.    *)
(* A class is the record of what line 75 stores: its bases, its registry   *)
(* (config_params), its '_' + name attributes (slots), its properties      *)
(* (props), its other attributes (plain), and its MRO.                     *)
(***************************************************************************)
\* dict.update, line 56
DictUpdate(a, d) ==
    [n \in (DOMAIN a) \cup (DOMAIN d) |-> IF n \in DOMAIN d THEN d[n] ELSE a[n]]

\* getattr(base, 'config_params', {}), line 56: `object` has none
BaseParams(cl, b) == IF b \in DOMAIN cl THEN cl[b].config_params ELSE <<>>

\* lines 54-56: for base in bases: config_params.update(...)
RECURSIVE MergeBases(_, _, _)
MergeBases(cl, bs, acc) ==
    IF bs = <<>> THEN acc
    ELSE MergeBases(cl, Tail(bs), DictUpdate(acc, BaseParams(cl, Head(bs))))

\* the names of a class body that lines 60-63 treat as overrides
Overrides(merged, body) == (DOMAIN body) \cap (DOMAIN merged)

\* the names of a class body that lines 67-74 register as new parameters
Declared(merged, body) == {n \in (DOMAIN body) \ (DOMAIN merged) : IsParameter(body[n])}

\* the registry the class ends up with: new_attrs['config_params']
config_params(merged, body) ==
    [n \in (DOMAIN merged) \cup Declared(merged, body) |->
        IF n \in Overrides(merged, body) THEN Replace(merged[n], body[n].raw)    \* line 61
        ELSE IF n \in Declared(merged, body) THEN ParamOf(body[n])               \* line 74
        ELSE merged[n]]

\* new_attrs['_' + name]: line 62 (override) and line 71 (static default)
ClassSlots(merged, body) ==
    LET static == {n \in Declared(merged, body) : ~callable(ParamOf(body[n]).value)}
    IN  [n \in Overrides(merged, body) \cup static |->
            IF n \in Overrides(merged, body) THEN body[n].raw
            ELSE ParamOf(body[n]).value]

\* new_attrs[name] = property(getter), lines 68-73
ClassProps(merged, body) ==
    [n \in Declared(merged, body) |->
        IF callable(ParamOf(body[n]).value)
        THEN [getter |-> "get_callable", func |-> ParamOf(body[n]).value]
        ELSE [getter |-> "get_static", func |-> NoneV]]

\* new_attrs[name] = value for the other attributes, lines 64-66
ClassPlain(merged, body) ==
    [n \in {m \in (DOMAIN body) \ (DOMAIN merged) : ~IsParameter(body[m])} |-> body[n].raw]

\* The MRO type.__new__ gives the class on line 75: the class, then the MROs
\* of its bases, every class kept at its last occurrence (for the hierarchies
\* of the model this is Python's linearization).
RECURSIVE BaseMros(_, _)
BaseMros(cl, bs) ==
    IF bs = <<>> THEN <<>> ELSE cl[Head(bs)].mro \o BaseMros(cl, Tail(bs))

Mro(cl, name, bs) ==
    LET l == <<name>> \o BaseMros(cl, bs)
        keep == {i \in 1..Len(l) : \A j \in (i + 1)..Len(l) : l[j] # l[i]}
        nth(k) == CHOOSE i \in keep : Cardinality({j \in keep : j < i}) = k - 1
    IN  [k \in 1..Cardinality(keep) |-> l[nth(k)]]

\* type.__new__ refuses bases that admit no consistent MRO: a class listed
\* before one of its own subclasses
ConsistentBases(cl, bs) ==
    \A i, j \in 1..Len(bs) :
        i < j => /\ bs[i] # bs[j]
                 /\ \A k \in 2..Len(cl[bs[j]].mro) : cl[bs[j]].mro[k] # bs[i]

\* the class object of `class name(bs): body`
MetaNew(cl, name, bs, body) ==
    LET merged == MergeBases(cl, bs, <<>>)
    IN  [bases |-> bs,
         config_params |-> config_params(merged, body),
         slots |-> ClassSlots(merged, body),
         props |-> ClassProps(merged, body),
         plain |-> ClassPlain(merged, body),
         mro |-> Mro(cl, name, bs)]

(***************************************************************************)
(* The program whose classes Spec uses:                                    *)
(*                                                                         *)
(*   class Config(object): ...                  # lines 87-132             *)
(*   class A(Config):                                                      *)
(*       port = Parameter(1, int, 'port doc', 'APP_PORT')                  *)
(*       key = Parameter(f1, int, 'key doc', 'APP_KEY')   # f1 a factory   *)
(*       version = 9                                                       *)
(*   class B(A):                                                           *)
(*       port = 2                                                          *)
(*       key = 3                                                           *)
(*   class M(Config):                                                      *)
(*       port = Parameter('m', docstring='m doc')                          *)
(*   class C(A, M):                                                        *)
(*       pass                                                              *)
(***************************************************************************)
EmptyBody == [n \in {} |-> RawAttr(NoneV)]

Program ==
    << [name |-> "Config", bases |-> <<>>, body |-> EmptyBody],
       [name |-> "A", bases |-> <<"Config">>,
        body |-> [n \in {"port", "key", "version"} |->
                    CASE n = "port" -> ParamAttr(1)
                      [] n = "key" -> ParamAttr(2)
                      [] n = "version" -> RawAttr(IntV(9))]],
       [name |-> "B", bases |-> <<"A">>,
        body |-> [n \in {"port", "key"} |->
                    IF n = "port" THEN RawAttr(IntV(2)) ELSE RawAttr(IntV(3))]],
       [name |-> "M", bases |-> <<"Config">>, body |-> [n \in {"port"} |-> ParamAttr(3)]],
       [name |-> "C", bases |-> <<"A", "M">>, body |-> EmptyBody] >>

\* the class table after the class statements `stmts` have run on `cl`
RECURSIVE Import(_, _)
Import(cl, stmts) ==
    IF stmts = <<>> THEN cl
    ELSE LET s == Head(stmts)
         IN  Import(DictUpdate(cl, [c \in {s.name} |-> MetaNew(cl, s.name, s.bases, s.body)]),
                    Tail(stmts))

ProgramClasses == Import(<<>>, Program)

(***************************************************************************)
(* Attribute lookup on a class: the first class of the MRO that has it.    *)
(***************************************************************************)
RECURSIVE FirstWith(_, _, _, _)
FirstWith(cl, mro, n, kind) ==
    IF mro = <<>> THEN "object"
    ELSE IF n \in DOMAIN cl[Head(mro)][kind] THEN Head(mro)
    ELSE FirstWith(cl, Tail(mro), n, kind)

(***************************************************************************)
(* State.                                                                  *)
(*   classes   the classes defined so far, by name (see MetaNew)           *)
(*   env       os.environ: the variables that are set, and their text      *)
(*   instance  cls.__instance of every class (0 is None), line 79          *)
(*   objs      the Config objects made so far: their class and their       *)
(*             __dict__ (the '_' + name attributes set on the instance)    *)
(*   invoked   per object and parameter, how often its factory has run     *)
(*   pc        per thread, where it is in ConfigMeta.__call__              *)
(*   parser    the ArgumentParser the last get_argparse returned           *)
(*   result    what the last operation returned or raised                  *)
(***************************************************************************)
VARIABLES classes, env, instance, objs, invoked, pc, parser, result

vars == <<classes, env, instance, objs, invoked, pc, parser, result>>

\* the classes a program constructs: the subclasses of Config
Callable == (DOMAIN classes) \ {"Config"}

\* cls.config_params
Registry(c) == classes[c].config_params

Idle == [at |-> "idle", cls |-> "", nargs |-> 0, obj |-> 0, ret |-> 0]
NoParser == [config_instance |-> 0, flags |-> <<>>]
NoResult == [op |-> "", exc |-> ""]

\* ConfigMeta.__init__, lines 77-79, has run for every class; nothing is constructed
Init ==
    /\ classes = ProgramClasses
    /\ env \in UNION {[S -> EnvStrings] : S \in SUBSET EnvVars}
    /\ instance = [c \in DOMAIN ProgramClasses |-> 0]
    /\ objs = <<>>
    /\ invoked = <<>>
    /\ pc = [t \in Threads |-> Idle]
    /\ parser = NoParser
    /\ result = NoResult

\* os.environ.get(name), lines 95-96: "" stands for the None of an unset variable
EnvGet(name) == IF name \in DOMAIN env THEN env[name] ELSE ""

(***************************************************************************)
(* Config.__init__, lines 92-96.                                           *)
(***************************************************************************)
\* the parameters line 95 selects
Overridden(c) ==
    {n \in DOMAIN Registry(c) :
        Truthy(Registry(c)[n].envvar) /\ Truthy(EnvGet(Registry(c)[n].envvar))}

\* line 96 for one parameter
EnvConvert(c, n) == CallType(Registry(c)[n].type_, EnvGet(Registry(c)[n].envvar))

\* a loop that swallows the exception of a converter
InitRaisesNever(c) == {}

\* the exceptions the loop can end with ({} when it completes)
InitRaises(c) == {EnvConvert(c, n).exc : n \in Overridden(c)} \ {""}

\* the instance __dict__ a completed loop leaves
InitDict(c) == [n \in Overridden(c) |-> EnvConvert(c, n).val]

(***************************************************************************)
(* ConfigMeta.__call__, lines 81-84, one step per point at which another   *)
(* thread can run.                                                         *)
(***************************************************************************)
\* a test that never finds the stored instance
IsNoneAlways(c) == TRUE

\* cls.__instance found through the MRO, as if line 79 had not given every
\* class an attribute of its own: the first class of the MRO that stores one
StoredInstanceInherited(c) ==
    LET mro == classes[c].mro
        has == {i \in 1..Len(mro) : instance[mro[i]] # 0}
    IN  IF has = {} THEN 0 ELSE instance[mro[CHOOSE i \in has : \A j \in has : i <= j]]

\* cls.__instance, lines 82-84: the attribute line 79 set on the class itself
StoredInstance(c) == instance[c]

\* line 82: cls.__instance is None
IsNone(c) == StoredInstance(c) = 0

\* line 82: the call starts and tests the stored instance
CallTest(t, c, nargs) ==
    /\ pc[t].at = "idle"
    /\ pc' = [pc EXCEPT ![t] = [at |-> IF IsNone(c) THEN "construct" ELSE "return",
                                cls |-> c, nargs |-> nargs, obj |-> 0, ret |-> 0]]
    /\ result' = [op |-> "call", exc |-> "", thread |-> t, cls |-> c]
    /\ UNCHANGED <<classes, env, instance, objs, invoked, parser>>

\* line 83, right-hand side: type.__call__ makes the object and runs __init__.
\* Config.__init__ takes no argument besides self.
CallConstruct(t) ==
    /\ pc[t].at = "construct"
    /\ LET c == pc[t].cls IN
       \/ /\ pc[t].nargs > 0
          /\ pc' = [pc EXCEPT ![t] = Idle]
          /\ result' = [op |-> "construct", exc |-> "TypeError", thread |-> t, cls |-> c]
          /\ UNCHANGED <<objs, invoked>>
       \/ /\ pc[t].nargs = 0
          /\ \E e \in InitRaises(c) :
                /\ pc' = [pc EXCEPT ![t] = Idle]
                /\ result' = [op |-> "construct", exc |-> e, thread |-> t, cls |-> c]
          /\ UNCHANGED <<objs, invoked>>
       \/ /\ pc[t].nargs = 0
          /\ InitRaises(c) = {}
          /\ Len(objs) < MaxObjs
          /\ objs' = Append(objs, [cls |-> c, dict |-> InitDict(c)])
          /\ invoked' = Append(invoked, [n \in DOMAIN Registry(c) |-> 0])
          /\ pc' = [pc EXCEPT ![t].at = "assign", ![t].obj = Len(objs) + 1]
          /\ result' = [op |-> "construct", exc |-> "", thread |-> t, cls |-> c]
    /\ UNCHANGED <<classes, env, instance, parser>>

\* line 83, the assignment to cls.__instance
CallAssign(t) ==
    /\ pc[t].at = "assign"
    /\ instance' = [instance EXCEPT ![pc[t].cls] = pc[t].obj]
    /\ pc' = [pc EXCEPT ![t].at = "return"]
    /\ result' = [op |-> "assign", exc |-> "", thread |-> t, cls |-> pc[t].cls]
    /\ UNCHANGED <<classes, env, objs, invoked, parser>>

\* line 84: return cls.__instance; the caller keeps the reference
CallReturn(t) ==
    /\ pc[t].at = "return"
    /\ pc' = [pc EXCEPT ![t] = [Idle EXCEPT !.ret = StoredInstance(pc[t].cls)]]
    /\ result' = [op |-> "return", exc |-> "", thread |-> t, cls |-> pc[t].cls,
                  nargs |-> pc[t].nargs, val |-> StoredInstance(pc[t].cls)]
    /\ UNCHANGED <<classes, env, instance, objs, invoked, parser>>

\* thread t is not inside a construction call and holds the object its last
\* call returned
Holds(t) == pc[t].at = "idle" /\ pc[t].ret # 0

(***************************************************************************)
(* The accessors ConfigMeta.__new__ generates, lines 46-52 and 68-73.      *)
(***************************************************************************)
\* getattr(self, '_' + name), line 48: the instance __dict__, then the classes
\* of the MRO
GetAttr(o, n) ==
    IF n \in DOMAIN objs[o].dict THEN objs[o].dict[n]
    ELSE classes[FirstWith(classes, classes[objs[o].cls].mro, n, "slots")].slots[n]

\* get_static, lines 46-48
get_static(o, n) == [val |-> GetAttr(o, n), dict |-> objs[o].dict, calls |-> 0]

\* a getter that returns what func() gives and stores nothing
get_callableFresh(o, n, func) ==
    LET d == objs[o].dict
        v == FactoryResult(func.n, invoked[o][n])
    IN  [val |-> IF n \in DOMAIN d THEN d[n] ELSE v, dict |-> d, calls |-> 1]

\* get_callable, lines 50-52: self.__dict__.setdefault(name, func()).  The
\* argument func() is evaluated before setdefault looks the name up.
get_callable(o, n, func) ==
    LET d == objs[o].dict
        v == FactoryResult(func.n, invoked[o][n])
    IN  [val |-> IF n \in DOMAIN d THEN d[n] ELSE v,
         dict |-> IF n \in DOMAIN d THEN d ELSE DictUpdate(d, [m \in {n} |-> v]),
         calls |-> 1]

\* the property the class of o resolves `name` to, line 73
Getter(o, n) == classes[FirstWith(classes, classes[objs[o].cls].mro, n, "props")].props[n]

\* self.<name>: what the read returns, the __dict__ it leaves, the factory calls it made
ReadParam(o, n) ==
    IF Getter(o, n).getter = "get_callable"
    THEN get_callable(o, n, Getter(o, n).func)
    ELSE get_static(o, n)

\* whether another read of n fits the bound on recorded factory invocations
CanRead(o, n) == Getter(o, n).getter = "get_callable" => invoked[o][n] < MaxCalls

\* the __dict__ of o after reading the parameters S
DictAfterReads(o, S) ==
    LET d == objs[o].dict
    IN  [n \in (DOMAIN d) \cup {m \in S : m \in DOMAIN ReadParam(o, m).dict} |->
            IF n \in S THEN ReadParam(o, n).dict[n] ELSE d[n]]

InvokedAfterReads(o, S) ==
    [n \in DOMAIN invoked[o] |->
        invoked[o][n] + (IF n \in S THEN ReadParam(o, n).calls ELSE 0)]

\* config.<name>
Read(t, n) ==
    /\ Holds(t)
    /\ LET o == pc[t].ret IN
        /\ n \in DOMAIN Registry(objs[o].cls)
        /\ CanRead(o, n)
        /\ objs' = [objs EXCEPT ![o].dict = DictAfterReads(o, {n})]
        /\ invoked' = [invoked EXCEPT ![o] = InvokedAfterReads(o, {n})]
        /\ result' = [op |-> "read", exc |-> "", obj |-> o, name |-> n,
                      val |-> ReadParam(o, n).val]
    /\ UNCHANGED <<classes, env, instance, pc, parser>>

(***************************************************************************)
(* Config.get_dict, lines 116-126.                                         *)
(***************************************************************************)
\* isinstance(value, (int, bool, float, str, unicode, list, dict)), line 125
JsonLike(v) == v.k \in {"int", "bool", "float", "str", "unicode", "list", "dict"}

\* an export of the registry's defaults in place of the values read
get_dictDefaults(o, strict) ==
    [n \in DOMAIN Registry(objs[o].cls) |-> Registry(objs[o].cls)[n].value]

get_dict(o, strict) ==
    LET names == DOMAIN Registry(objs[o].cls)
        out == [n \in names |-> ReadParam(o, n).val]
    IN  IF strict THEN [n \in {m \in names : JsonLike(out[m])} |-> out[n]] ELSE out

GetDict(t, strict) ==
    /\ Holds(t)
    /\ LET o == pc[t].ret IN
        /\ \A n \in DOMAIN Registry(objs[o].cls) : CanRead(o, n)
        /\ objs' = [objs EXCEPT ![o].dict = DictAfterReads(o, DOMAIN Registry(objs[o].cls))]
        /\ invoked' = [invoked EXCEPT ![o] = InvokedAfterReads(o, DOMAIN Registry(objs[o].cls))]
        /\ result' = [op |-> "get_dict", exc |-> "", obj |-> o, strict |-> strict,
                      out |-> get_dict(o, strict)]
    /\ UNCHANGED <<classes, env, instance, pc, parser>>

(***************************************************************************)
(* Config.set_dict, lines 128-132.  data.iteritems() yields the items in   *)
(* an order the caller does not control: `order` is that order.            *)
(***************************************************************************)
DataKeys == Names \cup {"bogus"}
DataValues == {IntV(5)}

\* the orders in which a set of at most three keys can be visited
Orders(S) ==
    {s \in UNION {[1..k -> S] : k \in {Cardinality(S)}} :
        \A i, j \in 1..Len(s) : i # j => s[i] # s[j]}

\* line 131 left out: the slot is written without consulting the registry
SetItemLenient(c, d, n, v) == [exc |-> "", dict |-> DictUpdate(d, [m \in {n} |-> v])]

\* line 132 left out: the registry is consulted, the slot is not written
SetItemNoWrite(c, d, n, v) ==
    IF n \notin DOMAIN Registry(c) THEN [exc |-> "KeyError", dict |-> d]
    ELSE [exc |-> "", dict |-> d]

\* lines 131-132 for one item: the registry lookup raises KeyError for an
\* unknown name; the tuple _replace returns is dropped; the slot is written
SetItem(c, d, n, v) ==
    IF n \notin DOMAIN Registry(c)
    THEN [exc |-> "KeyError", dict |-> d]
    ELSE [exc |-> "", dict |-> DictUpdate(d, [m \in {n} |-> v])]

RECURSIVE set_dict(_, _, _, _)
set_dict(c, d, data, order) ==
    IF order = <<>> THEN [exc |-> "", dict |-> d]
    ELSE LET r == SetItem(c, d, Head(order), data[Head(order)])
         IN  IF r.exc # "" THEN r ELSE set_dict(c, r.dict, data, Tail(order))

SetDict(t, data, order) ==
    /\ Holds(t)
    /\ LET o == pc[t].ret
           r == set_dict(objs[o].cls, objs[o].dict, data, order)
       IN  /\ objs' = [objs EXCEPT ![o].dict = r.dict]
           /\ result' = [op |-> "set_dict", exc |-> r.exc, obj |-> o, data |-> data]
    /\ UNCHANGED <<classes, env, instance, invoked, pc, parser>>

\* config.set_dict(config.get_dict()): the mapping get_dict has just returned
\* for the object is handed back to set_dict
RoundTrip(t) ==
    /\ result.op = "get_dict"
    /\ Holds(t)
    /\ pc[t].ret = result.obj
    /\ \E order \in Orders(DOMAIN result.out) : SetDict(t, result.out, order)

(***************************************************************************)
(* Config.get_argparse, lines 98-114.                                      *)
(***************************************************************************)
\* the lists of names the model passes: one or two distinct names
ParamNameLists ==
    {s \in UNION {[1..k -> DataKeys] : k \in 1..2} :
        \A i, j \in 1..Len(s) : i # j => s[i] # s[j]}

\* default=getattr(self, name): the live value in place of the registry's
FlagDefaultLive(o, n) == ReadParam(o, n).val

\* default=param.value, lines 111-112: the default of the flag for n on a
\* parser of object o
FlagDefault(o, n) == Registry(objs[o].cls)[n].value

\* parser.add_argument('--' + name, help=, default=, type=, action=), lines 111-113
add_argument(flags, o, n) ==
    DictUpdate(flags, [m \in {n} |->
        [help |-> Registry(objs[o].cls)[n].docstring,
         default |-> FlagDefault(o, n),
         type |-> Registry(objs[o].cls)[n].type_]])

\* a loop that passes over the names the registry does not have
RECURSIVE AddFlagsSkip(_, _, _)
AddFlagsSkip(o, names, flags) ==
    IF names = <<>> THEN [exc |-> "", flags |-> flags]
    ELSE IF Head(names) \notin DOMAIN Registry(objs[o].cls)
         THEN AddFlagsSkip(o, Tail(names), flags)
         ELSE AddFlagsSkip(o, Tail(names), add_argument(flags, o, Head(names)))

\* lines 110-113: the loop over param_names, on the parser line 108 made
RECURSIVE AddFlags(_, _, _)
AddFlags(o, names, flags) ==
    IF names = <<>> THEN [exc |-> "", flags |-> flags]
    ELSE IF Head(names) \notin DOMAIN Registry(objs[o].cls)
         THEN [exc |-> "KeyError", flags |-> flags]                       \* line 111
         ELSE AddFlags(o, Tail(names), add_argument(flags, o, Head(names)))

\* constructed: argparse.ArgumentParser(**kwargs) has been called, line 108
get_argparse(o, param_names) ==
    LET r == AddFlags(o, param_names, <<>>)
    IN  [exc |-> r.exc, constructed |-> TRUE, added |-> DOMAIN r.flags,
         parser |-> [config_instance |-> o, flags |-> r.flags]]

GetArgparse(t, param_names) ==
    /\ Holds(t)
    /\ LET o == pc[t].ret
           r == get_argparse(o, param_names)
       IN  /\ parser' = IF r.exc = "" THEN r.parser ELSE parser
           /\ result' = [op |-> "get_argparse", exc |-> r.exc, obj |-> o, names |-> param_names,
                         constructed |-> r.constructed, added |-> r.added,
                         returned |-> r.exc = ""]
    /\ UNCHANGED <<classes, env, instance, objs, invoked, pc>>

(***************************************************************************)
(* parser.parse_args(argv) on a parser get_argparse returned.  argparse    *)
(* converts the text of a flag with its type (no type: the text itself),   *)
(* ends the parse with SystemExit when the conversion fails, and otherwise *)
(* calls the flag's action; flags absent from argv keep their default.     *)
(* Defaults are values of the converter's target type.                     *)
(***************************************************************************)
FlagStrings == {"5", "x"}

\* the command lines the model parses: at most MaxArgv flags of the parser, each once
ArgvSet(flags) ==
    {s \in UNION {[1..k -> [flag : DOMAIN flags, text : FlagStrings]] : k \in 0..MaxArgv} :
        \A i, j \in 1..Len(s) : i # j => s[i].flag # s[j].flag}

\* argparse's conversion of a flag's text with type=param.type_, line 113
ArgparseGetValue(type_, s) ==
    IF type_ = "None" THEN [exc |-> "", val |-> StrV(s)]
    ELSE IF CallType(type_, s).exc # "" THEN [exc |-> "SystemExit", val |-> NoneV]
    ELSE CallType(type_, s)

\* argparse.Action.__call__, which line 33 calls through super(): the base
\* class does not store anything, it raises
ActionCall(ns, dest, values) == [exc |-> "NotImplementedError", ns |-> ns]

\* _ArgparseAction.__call__, lines 30-33: write the slot, then the base call
ArgparseAction(d, ns, dest, values) ==
    LET written == DictUpdate(d, [m \in {dest} |-> values])        \* line 32
        base == ActionCall(ns, dest, values)                         \* line 33
    IN  [exc |-> base.exc, dict |-> written, ns |-> base.ns]

\* flag: the flag whose handling raised
RECURSIVE ParseArgs(_, _, _, _)
ParseArgs(flags, argv, ns, d) ==
    IF argv = <<>> THEN [exc |-> "", ns |-> ns, dict |-> d, flag |-> ""]
    ELSE LET a == Head(argv)
             conv == ArgparseGetValue(flags[a.flag].type, a.text)
         IN  IF conv.exc # "" THEN [exc |-> conv.exc, ns |-> ns, dict |-> d, flag |-> a.flag]
             ELSE LET r == ArgparseAction(d, ns, a.flag, conv.val)
                  IN  IF r.exc # ""
                      THEN [exc |-> r.exc, ns |-> r.ns, dict |-> r.dict, flag |-> a.flag]
                      ELSE ParseArgs(flags, Tail(argv), r.ns, r.dict)

\* the namespace argparse starts from: every flag at its default
Defaults(flags) == [n \in DOMAIN flags |-> flags[n].default]

Parse(t, argv) ==
    /\ pc[t].at = "idle"
    /\ parser # NoParser
    /\ LET o == parser.config_instance
           r == ParseArgs(parser.flags, argv, Defaults(parser.flags), objs[o].dict)
       IN  /\ objs' = [objs EXCEPT ![o].dict = r.dict]
           /\ result' = [op |-> "parse", exc |-> r.exc, obj |-> o, argv |-> argv,
                         ns |-> IF r.exc = "" THEN r.ns ELSE <<>>, flag |-> r.flag]
    /\ UNCHANGED <<classes, env, instance, invoked, pc, parser>>

(***************************************************************************)
(* A class statement `class name(bs): body` runs: ConfigMeta.__new__,      *)
(* lines 44-75, then ConfigMeta.__init__, lines 77-79.                     *)
(***************************************************************************)
\* a class statement whose registry is the dict of its first base, not a copy:
\* lines 61 and 74 then write into the base's registry
ClassesAfterShared(cl, name, bs, body) ==
    LET new == MetaNew(cl, name, bs, body)
    IN  [c \in (DOMAIN cl) \cup {name} |->
            IF c = name THEN new
            ELSE IF c = bs[1] THEN [cl[c] EXCEPT !.config_params = new.config_params]
            ELSE cl[c]]

\* the classes after the statement: line 54 makes a new dict for the class
\* and line 56 copies the entries of the bases into it, so the statement adds
\* a class and writes to no other
ClassesAfter(cl, name, bs, body) ==
    DictUpdate(cl, [c \in {name} |-> MetaNew(cl, name, bs, body)])

DefineClass(name, bs, body) ==
    /\ name \notin DOMAIN classes
    /\ \A i \in 1..Len(bs) : bs[i] \in DOMAIN classes
    /\ ConsistentBases(classes, bs)
    /\ classes' = ClassesAfter(classes, name, bs, body)
    /\ instance' = DictUpdate(instance, [c \in {name} |-> 0])
    /\ result' = [op |-> "class", exc |-> "", cls |-> name, bases |-> bs, body |-> body]
    /\ UNCHANGED <<env, objs, invoked, pc, parser>>

\* the program uses one configuration class: no object of another class exists
OnlyClass(c) == \A o \in 1..Len(objs) : objs[o].cls = c

(***************************************************************************)
(* Spec: one thread, the classes of Program, one of them in use, every     *)
(* operation on its instance.                                              *)
(***************************************************************************)
Next ==
    \/ \E c \in Callable, nargs \in {0, 1} : OnlyClass(c) /\ CallTest(1, c, nargs)
    \/ CallConstruct(1)
    \/ CallAssign(1)
    \/ CallReturn(1)
    \/ \E n \in Names : Read(1, n)
    \/ \E strict \in BOOLEAN : GetDict(1, strict)
    \/ \E S \in SUBSET DataKeys : \E data \in [S -> DataValues] :
            \E order \in Orders(S) : SetDict(1, data, order)
    \/ RoundTrip(1)
    \/ \E names \in ParamNameLists : GetArgparse(1, names)
    \/ \E argv \in ArgvSet(parser.flags) : Parse(1, argv)

Spec == Init /\ [][Next]_vars

(***************************************************************************)
(* SpecThreads: the same program, two threads that construct and read.     *)
(***************************************************************************)
NextThreads ==
    \/ \E t \in Threads, c \in Callable, nargs \in {0, 1} : OnlyClass(c) /\ CallTest(t, c, nargs)
    \/ \E t \in Threads : CallConstruct(t)
    \/ \E t \in Threads : CallAssign(t)
    \/ \E t \in Threads : CallReturn(t)
    \/ \E t \in Threads, n \in Names : Read(t, n)

SpecThreads == Init /\ [][NextThreads]_vars

(***************************************************************************)
(* SpecValues: the instance of class A holds values of every kind: set_dict *)
(* accepts any object as a value, and get_dict exports what is held.       *)
(***************************************************************************)
AnyValues ==
    {IntV(5), LongV(1), BoolV(1), FloatV(1), StrV("x"), ListV(1), TupleV(1), DictV(1),
     ObjV(1), NoneV}

NextValues ==
    \/ \E nargs \in {0, 1} : CallTest(1, "A", nargs)
    \/ CallConstruct(1)
    \/ CallAssign(1)
    \/ CallReturn(1)
    \/ \E strict \in BOOLEAN : GetDict(1, strict)
    \/ \E n \in Names, v \in AnyValues : SetDict(1, [m \in {n} |-> v], <<n>>)

SpecValues == Init /\ [][NextValues]_vars

(***************************************************************************)
(* SpecMeta: class statements.  Starting from Config alone, the classes X, *)
(* Y, Z are defined in turn, each with any bases among the classes defined *)
(* before it and a body that binds at most one of Names (__new__ treats    *)
(* the names of a body one by one, lines 59-74).                           *)
(***************************************************************************)
MetaNames == <<"X", "Y", "Z">>

BodyAttrs == {ParamAttr(1), ParamAttr(2), ParamAttr(3), RawAttr(IntV(2))}
Bodies == UNION {[S -> BodyAttrs] : S \in {R \in SUBSET Names : Cardinality(R) <= 1}}

BaseLists ==
    {s \in UNION {[1..k -> DOMAIN classes] : k \in 1..2} :
        \A i, j \in 1..Len(s) : i # j => s[i] # s[j]}

InitMeta ==
    /\ classes = Import(<<>>, <<Program[1]>>)
    /\ env = <<>>
    /\ instance = [c \in {"Config"} |-> 0]
    /\ objs = <<>>
    /\ invoked = <<>>
    /\ pc = [t \in Threads |-> Idle]
    /\ parser = NoParser
    /\ result = NoResult

NextMeta ==
    \E i \in 1..Len(MetaNames) :
        /\ MetaNames[i] \notin DOMAIN classes
        /\ \A j \in 1..(i - 1) : MetaNames[j] \in DOMAIN classes
        /\ \E bs \in BaseLists, body \in Bodies : DefineClass(MetaNames[i], bs, body)

SpecMeta == InitMeta /\ [][NextMeta]_vars

(***************************************************************************)
(* SpecDefine: class A is in use (construction, reads, get_dict, set_dict,  *)
(* get_argparse, parses) while subclasses X(A) and Y(A) or Y(X) are defined *)
(* that re-declare its names.                                              *)
(***************************************************************************)
DefineNames == <<"X", "Y">>

InitDefine ==
    /\ classes = ProgramClasses
    /\ env \in {<<>>, [v \in {"APP_PORT"} |-> "7"]}
    /\ instance = [c \in DOMAIN ProgramClasses |-> 0]
    /\ objs = <<>>
    /\ invoked = <<>>
    /\ pc = [t \in Threads |-> Idle]
    /\ parser = NoParser
    /\ result = NoResult

NextDefine ==
    \/ \E nargs \in {0, 1} : CallTest(1, "A", nargs)
    \/ CallConstruct(1)
    \/ CallAssign(1)
    \/ CallReturn(1)
    \/ \E n \in Names : Read(1, n)
    \/ GetDict(1, FALSE)
    \/ \E n \in DataKeys, v \in DataValues : SetDict(1, [m \in {n} |-> v], <<n>>)
    \/ \E n \in Names : GetArgparse(1, <<n>>)
    \/ \E argv \in ArgvSet(parser.flags) : Parse(1, argv)
    \/ \E i \in 1..Len(DefineNames) :
            /\ DefineNames[i] \notin DOMAIN classes
            /\ \A j \in 1..(i - 1) : DefineNames[j] \in DOMAIN classes
            /\ \E b \in {"A"} \cup {DefineNames[j] : j \in 1..(i - 1)}, body \in Bodies :
                    DefineClass(DefineNames[i], <<b>>, body)

SpecDefine == InitDefine /\ [][NextDefine]_vars

(***************************************************************************)
(* SpecEnv: construction calls and reads of one class, while the process   *)
(* changes its environment between the calls (os.environ, lines 95-96).    *)
(***************************************************************************)
\* os.environ[v] = s
PutEnv(t, v, s) ==
    /\ pc[t].at = "idle"
    /\ env' = DictUpdate(env, [w \in {v} |-> s])
    /\ result' = [op |-> "putenv", exc |-> "", var |-> v, val |-> s]
    /\ UNCHANGED <<classes, instance, objs, invoked, pc, parser>>

NextEnv ==
    \/ \E c \in Callable, nargs \in {0, 1} : OnlyClass(c) /\ CallTest(1, c, nargs)
    \/ CallConstruct(1)
    \/ CallAssign(1)
    \/ CallReturn(1)
    \/ \E n \in Names : Read(1, n)
    \/ \E v \in EnvVars, s \in EnvStrings : PutEnv(1, v, s)

SpecEnv == Init /\ [][NextEnv]_vars

(***************************************************************************)
(* SpecPair: class A and its subclass B are both in use.  The program      *)
(* calls A() or B() to get the instance it then reads, writes with         *)
(* set_dict, or builds and runs a parser on.                               *)
(***************************************************************************)
NextPair ==
    \/ \E c \in {"A", "B"}, nargs \in {0, 1} : CallTest(1, c, nargs)
    \/ CallConstruct(1)
    \/ CallAssign(1)
    \/ CallReturn(1)
    \/ \E n \in Names : Read(1, n)
    \/ \E n \in Names, v \in DataValues : SetDict(1, [m \in {n} |-> v], <<n>>)
    \/ \E n \in Names : GetArgparse(1, <<n>>)
    \/ \E argv \in ArgvSet(parser.flags) : Parse(1, argv)

SpecPair == InitDefine /\ [][NextPair]_vars

(***************************************************************************)
(* str_bool, lines 135-140.  The text of a string is the sequence of its   *)
(* characters; an input is a record of its type k, its number n and its    *)
(* characters.                                                             *)
(***************************************************************************)
StrC(chars) == [k |-> "str", n |-> 0, chars |-> chars]
NonStr(v) == [k |-> v.k, n |-> v.n, chars |-> <<>>]

\* the characters str.strip() removes
Whitespace == {" ", "\t", "\n"}

UpperCase == <<"A", "E", "F", "I", "L", "N", "O", "R", "S", "T", "U">>
LowerCase == <<"a", "e", "f", "i", "l", "n", "o", "r", "s", "t", "u">>

\* str.lower() on one character
lowerChar(c) ==
    IF \E i \in 1..Len(UpperCase) : UpperCase[i] = c
    THEN LowerCase[CHOOSE i \in 1..Len(UpperCase) : UpperCase[i] = c]
    ELSE c

\* str.upper() on one character
upperChar(c) ==
    IF \E i \in 1..Len(LowerCase) : LowerCase[i] = c
    THEN UpperCase[CHOOSE i \in 1..Len(LowerCase) : LowerCase[i] = c]
    ELSE c

\* x.lower(), line 138
lower(s) == [i \in 1..Len(s) |-> lowerChar(s[i])]

RECURSIVE lstrip(_)
lstrip(s) == IF s # <<>> /\ Head(s) \in Whitespace THEN lstrip(Tail(s)) ELSE s

RECURSIVE rstrip(_)
rstrip(s) ==
    IF s # <<>> /\ s[Len(s)] \in Whitespace THEN rstrip(SubSeq(s, 1, Len(s) - 1)) ELSE s

\* a strip that trims the left end only
stripLeft(s) == lstrip(s)

\* x.strip(), line 138
strip(s) == rstrip(lstrip(s))

\* the set literal of line 138
FalseStrings ==
    {<<"0">>, <<"f", "a", "l", "s", "e">>, <<"n", "o", "n", "e">>, <<"n", "u", "l", "l">>,
     <<"n", "i", "l">>, <<>>}

\* bool(x), line 140, for the inputs that have no strip method
bool(x) ==
    CASE x.k \in {"int", "long", "bool", "float"} -> x.n # 0
      [] x.k = "NoneType" -> FALSE
      [] OTHER -> TRUE

\* lines 137-140: an input without .strip raises AttributeError inside the try
str_bool(x) ==
    IF x.k \in {"str", "unicode"}
    THEN lower(strip(x.chars)) \notin FalseStrings
    ELSE bool(x)

\* The inputs of SpecStrBool: a word, written in lower case, in upper case or
\* capitalised, between two runs of whitespace; and values that are no strings.
OtherWords ==
    {<<"1">>, <<"t", "r", "u", "e">>, <<"n", "o">>, <<"0", "0">>, <<"n", "i", "l", "l">>,
     <<"f", "a", "l", "s">>, <<"0", " ", "0">>, <<"n", "\t", "i", "l">>, <<"-">>}

Casings == {"lower", "upper", "capital"}

Cased(w, casing) ==
    [i \in 1..Len(w) |->
        IF casing = "upper" \/ (casing = "capital" /\ i = 1) THEN upperChar(w[i]) ELSE w[i]]

Paddings == {<<>>, <<" ">>, <<"\n">>, <<"\t", " ">>}

NonStrings == {NonStr(IntV(0)), NonStr(IntV(1)), NonStr(NoneV), NonStr(ObjV(1))}

InitStrBool ==
    /\ classes = ProgramClasses
    /\ env = <<>>
    /\ instance = [c \in DOMAIN ProgramClasses |-> 0]
    /\ objs = <<>>
    /\ invoked = <<>>
    /\ pc = [t \in Threads |-> Idle]
    /\ parser = NoParser
    /\ \/ \E w \in FalseStrings \cup OtherWords, casing \in Casings, l \in Paddings, r \in Paddings :
            result = [op |-> "input", x |-> StrC(l \o Cased(w, casing) \o r), word |-> w]
       \/ \E x \in NonStrings : result = [op |-> "input", x |-> x, word |-> <<>>]

\* str_bool(x) is called
StrBool ==
    /\ result.op = "input"
    /\ result' = [op |-> "str_bool", x |-> result.x, word |-> result.word,
                  val |-> str_bool(result.x)]
    /\ UNCHANGED <<classes, env, instance, objs, invoked, pc, parser>>

NextStrBool == StrBool

SpecStrBool == InitStrBool /\ [][NextStrBool]_vars

(***************************************************************************)
(* Properties.                                                             *)
(***************************************************************************)
\* the instance attribute '_' + n of an object: <<v>> when set, <<>> when not
Slot(obj, n) == IF n \in DOMAIN obj.dict THEN <<obj.dict[n]>> ELSE <<>>

\* C1: once a class has a stored instance, no step of any operation replaces
\* or resets it, and every construction call that returns, whatever its
\* arguments, returns that instance.
SingletonIdentity ==
    [][\A c \in DOMAIN instance :
          instance[c] # 0 =>
            /\ instance'[c] = instance[c]
            /\ \A t \in Threads :
                  (pc[t].at = "return" /\ pc[t].cls = c /\ pc'[t].at = "idle")
                      => pc'[t].ret = instance[c]]_vars

\* a later call with an argument has returned the instance that set_dict wrote to
SingletonIdentityWitness ==
    /\ result.op = "return"
    /\ result.nargs = 1
    /\ result.val # 0
    /\ Slot(objs[result.val], "port") = <<IntV(5)>>

\* C2: under two threads, a class never has two constructed objects (the
\* environment pass of Config.__init__ completes at most once per class) and
\* the threads never hold different instances of one class.
RaceSafeConstruction ==
    /\ \A c \in DOMAIN instance :
          Cardinality({o \in 1..Len(objs) : objs[o].cls = c}) <= 1
    /\ \A t, u \in Threads :
          (pc[t].ret # 0 /\ pc[u].ret # 0 /\ objs[pc[t].ret].cls = objs[pc[u].ret].cls)
              => pc[t].ret = pc[u].ret

\* C3: the default factory of a parameter runs at most once per instance,
\* over any sequence of reads and get_dict calls.
FactoryAtMostOnce ==
    \A o \in 1..Len(objs) : \A n \in DOMAIN invoked[o] : invoked[o][n] <= 1

\* the coded default of a registry entry: the static value, or what the
\* factory returns when first run
CodedDefault(p) == IF callable(p.value) THEN FactoryResult(p.value.n, 0) ELSE p.value

\* C4: a freshly constructed instance reads every parameter as type_(value
\* of its envvar) when the parameter has an envvar that is set and not empty,
\* and as its coded default otherwise.
EnvOverrideOrDefault ==
    \A t \in Threads :
        pc[t].at = "assign" =>
            \A n \in DOMAIN Registry(pc[t].cls) :
                LET p == Registry(pc[t].cls)[n]
                IN  ReadParam(pc[t].obj, n).val =
                        IF Truthy(p.envvar) /\ Truthy(EnvGet(p.envvar))
                        THEN CallType(p.type_, EnvGet(p.envvar)).val
                        ELSE CodedDefault(p)

\* the bases of the class just defined whose registry has the name n
BasesWith(n) ==
    {i \in 1..Len(result.bases) : n \in DOMAIN Registry(result.bases[i])}

\* C5: when a class body re-declares a name of its inherited registry, the
\* class's entry for the name has the re-declared value and the type_,
\* docstring and envvar of the entry it inherits.
RedeclareOnlyValue ==
    result.op = "class" =>
        \A n \in DOMAIN result.body :
            BasesWith(n) # {} =>
                /\ n \in DOMAIN Registry(result.cls)
                /\ Registry(result.cls)[n].value = result.body[n].raw
                /\ \E i \in BasesWith(n) :
                      LET old == Registry(result.bases[i])[n]
                          new == Registry(result.cls)[n]
                      IN  /\ new.type_ = old.type_
                          /\ new.docstring = old.docstring
                          /\ new.envvar = old.envvar

\* a class with one base has re-declared a name whose inherited entry has an
\* envvar and another value
RedeclareOnlyValueWitness ==
    /\ result.op = "class"
    /\ Len(result.bases) = 1
    /\ \E n \in DOMAIN result.body :
          /\ BasesWith(n) = {1}
          /\ Registry(result.bases[1])[n].envvar # ""
          /\ Registry(result.bases[1])[n].value # result.body[n].raw
          /\ Registry(result.cls)[n].value = result.body[n].raw

\* C6: when two bases of a class both have a name the class body does not
\* bind, the class's registry has the entry of the first base.
FirstBaseWins ==
    (result.op = "class" /\ Len(result.bases) = 2) =>
        \A n \in (DOMAIN Registry(result.bases[1]) \cap DOMAIN Registry(result.bases[2]))
                    \ DOMAIN result.body :
            Registry(result.cls)[n] = Registry(result.bases[1])[n]

\* C7: a parse of `--<name> text` whose text the converter accepts returns
\* the converted value in the namespace, leaves the instance reading that
\* value, and leaves the registry's default as it was.
ParseReturnsAndWrites ==
    result.op = "parse" =>
        \A i \in 1..Len(result.argv) :
            LET a == result.argv[i]
                conv == ArgparseGetValue(parser.flags[a.flag].type, a.text)
                o == parser.config_instance
            IN  (\A j \in 1..i : ArgparseGetValue(parser.flags[result.argv[j].flag].type,
                                                   result.argv[j].text).exc = "")
                    => /\ result.exc = ""
                       /\ result.ns[a.flag] = conv.val
                       /\ ReadParam(o, a.flag).val = conv.val
                       /\ Registry(objs[o].cls)[a.flag].value = parser.flags[a.flag].default

\* the flags of the parser that the parsed command line does not give
Omitted(argv) == {n \in DOMAIN parser.flags : \A i \in 1..Len(argv) : argv[i].flag # n}

\* C8: for a flag the command line omits, a parse that returns gives the
\* registry's default in the namespace, whatever the instance's current
\* value, and no parse writes the instance's slot of that flag.
OmittedFlagDefault ==
    [][result'.op = "parse" =>
          LET o == parser.config_instance
          IN  \A n \in Omitted(result'.argv) :
                /\ result'.exc = "" => result'.ns[n] = Registry(objs[o].cls)[n].value
                /\ Slot(objs'[o], n) = Slot(objs[o], n)]_vars

\* a parse has returned the registry's default of a flag whose slot holds
\* another value
OmittedFlagDefaultWitness ==
    /\ result.op = "parse"
    /\ result.exc = ""
    /\ \E n \in Omitted(result.argv) :
          /\ Slot(objs[parser.config_instance], n) # <<>>
          /\ objs[parser.config_instance].dict[n] # Registry(objs[parser.config_instance].cls)[n].value
          /\ result.ns[n] = Registry(objs[parser.config_instance].cls)[n].value

\* the positions of param_names whose name the registry of the object lacks
Unknown(r) == {i \in 1..Len(r.names) : r.names[i] \notin DOMAIN Registry(objs[r.obj].cls)}

\* C9 as claimed: get_argparse with an unknown name raises, no parser has
\* been constructed, and the instance is unchanged.
UnknownNameNoParser ==
    [][(result'.op = "get_argparse" /\ Unknown(result') # {}) =>
          /\ result'.exc # ""
          /\ ~result'.constructed
          /\ objs' = objs]_vars

\* C9 as amended: get_argparse with an unknown name raises KeyError and
\* returns no parser; the parser line 108 constructed, holding the flags of
\* the names before the first unknown one, is dropped; the instance is
\* unchanged.
UnknownNameRaises ==
    [][(result'.op = "get_argparse" /\ Unknown(result') # {}) =>
          /\ result'.exc = "KeyError"
          /\ ~result'.returned
          /\ parser' = parser
          /\ result'.constructed
          /\ result'.added = {result'.names[j] : j \in {k \in 1..Len(result'.names) :
                                                          \A i \in Unknown(result') : k < i}}
          /\ objs' = objs
          /\ invoked' = invoked]_vars

\* get_argparse has raised on a list whose second name is unknown, on an
\* instance that has a slot set
UnknownNameRaisesWitness ==
    /\ result.op = "get_argparse"
    /\ result.exc = "KeyError"
    /\ Unknown(result) = {2}
    /\ result.added # {}
    /\ objs[result.obj].dict # <<>>

\* C10 as claimed: after set_dict(data) every registered key of data reads as
\* the given value, and the slot of every other registered name is as before.
SetDictWritesKeys ==
    [][\A o \in 1..Len(objs) :
          (result'.op = "set_dict" /\ result'.obj = o) =>
              \A n \in DOMAIN Registry(objs[o].cls) :
                /\ n \in DOMAIN result'.data => (ReadParam(o, n).val)' = result'.data[n]
                /\ n \notin DOMAIN result'.data => Slot(objs'[o], n) = Slot(objs[o], n)]_vars

\* C10 as amended: set_dict(data) raises KeyError exactly when data has a key
\* the registry lacks.  When it returns, every key of data reads as the given
\* value; when it raises, every registered key of data reads as the given
\* value or has its slot as before.  Either way the slot of every registered
\* name that is no key of data is as before.
SetDictEffect ==
    [][\A o \in 1..Len(objs) :
          (result'.op = "set_dict" /\ result'.obj = o) =>
          LET known == DOMAIN result'.data \subseteq DOMAIN Registry(objs[o].cls)
          IN  /\ result'.exc = (IF known THEN "" ELSE "KeyError")
              /\ \A n \in DOMAIN Registry(objs[o].cls) :
                    /\ n \in DOMAIN result'.data =>
                          \/ (ReadParam(o, n).val)' = result'.data[n]
                          \/ ~known /\ Slot(objs'[o], n) = Slot(objs[o], n)
                    /\ n \notin DOMAIN result'.data => Slot(objs'[o], n) = Slot(objs[o], n)]_vars

\* set_dict has returned after writing one parameter of an instance whose
\* other parameter has a slot set, which it kept
SetDictEffectWitness ==
    /\ result.op = "set_dict"
    /\ result.exc = ""
    /\ \E n \in DOMAIN result.data, m \in DOMAIN Registry(objs[result.obj].cls) :
          /\ m \notin DOMAIN result.data
          /\ Slot(objs[result.obj], n) = <<result.data[n]>>
          /\ Slot(objs[result.obj], m) # <<>>
          /\ Slot(objs[result.obj], m) # <<result.data[n]>>

\* C11: get_dict leaves the value read for every registered parameter as it
\* was, and so does set_dict of the mapping get_dict has just returned, which
\* raises nothing: set_dict(get_dict()) changes no value read, in any state
\* of the instance.
RoundTripKeepsValues ==
    [][\A o \in 1..Len(objs) :
          \/ result'.op = "get_dict" /\ result'.obj = o
          \/ /\ result.op = "get_dict" /\ result.obj = o
             /\ result'.op = "set_dict" /\ result'.obj = o /\ result'.data = result.out
          => /\ result'.exc = ""
             /\ \A n \in DOMAIN Registry(objs[o].cls) :
                   (ReadParam(o, n).val)' = ReadParam(o, n).val]_vars

\* set_dict has been given the export of an instance whose port came from
\* the environment and whose key came from its factory, and both slots hold
\* the exported values
RoundTripKeepsValuesWitness ==
    /\ result.op = "set_dict"
    /\ result.exc = ""
    /\ DOMAIN result.data = {"port", "key"}
    /\ result.data["port"] = IntV(7)
    /\ result.data["key"] = FactoryResult(1, 0)
    /\ Slot(objs[result.obj], "port") = <<IntV(7)>>
    /\ Slot(objs[result.obj], "key") = <<FactoryResult(1, 0)>>

\* what kind of value the export contract takes a Python value for: int and
\* long are the integers, str and unicode the strings, list and tuple the
\* ordered sequences, dict the key-value mapping
ValueKind(v) ==
    CASE v.k \in {"int", "long"} -> "integer"
      [] v.k = "bool" -> "boolean"
      [] v.k = "float" -> "float"
      [] v.k \in {"str", "unicode"} -> "string"
      [] v.k \in {"list", "tuple"} -> "sequence"
      [] v.k = "dict" -> "mapping"
      [] OTHER -> "object"

Exportable(v) ==
    ValueKind(v) \in {"integer", "boolean", "float", "string", "sequence", "mapping"}

\* C12: get_dict(strict=False) maps exactly the registered names to the values
\* their accessors return; get_dict(strict=True) is that mapping restricted to
\* exactly the entries whose value is an integer, a boolean, a float, a
\* string, an ordered sequence or a key-value mapping.
ExportContract ==
    result.op = "get_dict" =>
        LET o == result.obj
            names == DOMAIN Registry(objs[o].cls)
            full == [n \in names |-> ReadParam(o, n).val]
        IN  IF result.strict
            THEN result.out = [n \in {m \in names : Exportable(full[m])} |-> full[n]]
            ELSE result.out = full

\* C13: str_bool of a string is False exactly when the string is one of "0",
\* "false", "none", "null", "nil", "" in any letter case between any
\* surrounding whitespace, and True for every other string; str_bool of a value
\* that is no string is its truthiness: False for 0 and None, True for 1.
StrBoolContract ==
    result.op = "str_bool" =>
        /\ result.x.k = "str" => (result.val = FALSE <=> result.word \in FalseStrings)
        /\ result.x.k = "str" => (result.val = TRUE <=> result.word \in OtherWords)
        /\ result.x = NonStr(IntV(0)) => result.val = FALSE
        /\ result.x = NonStr(IntV(1)) => result.val = TRUE
        /\ result.x = NonStr(NoneV) => result.val = FALSE

\* str_bool has returned False for " \tNULL\n", written with surrounding
\* whitespace and in upper case
StrBoolContractWitness ==
    /\ result.op = "str_bool"
    /\ result.x = StrC(<<"\t", " ", "N", "U", "L", "L", "\n">>)
    /\ result.val = FALSE

\* the names the class statement of c re-declared: lines 60-63 gave the class
\* a '_' + name attribute and no property of its own
Redeclared(c) ==
    {n \in DOMAIN classes[c].slots : n \in DOMAIN Registry(c) /\ n \notin DOMAIN classes[c].props}

\* C14: a freshly constructed instance of a class that re-declares an
\* inherited name reads, when no environment override applies to the name,
\* the re-declared raw value, whether the ancestor's default is static or a
\* factory.
RedeclaredValueRead ==
    \A t \in Threads :
        pc[t].at = "assign" =>
            \A n \in Redeclared(pc[t].cls) \ Overridden(pc[t].cls) :
                ReadParam(pc[t].obj, n).val = classes[pc[t].cls].slots[n]

\* the parameters of class c whose accessor is get_callable
FactoryNames(c) ==
    {n \in DOMAIN Registry(c) :
        classes[FirstWith(classes, classes[c].mro, n, "props")].props[n].getter = "get_callable"}

\* C15: for a factory parameter without an environment override, construction
\* leaves the factory not run and the slot unset; the first read stores the
\* value it returns; every later read returns the stored value; and the
\* stored value changes only in a step of set_dict or of a parse.
FactoryValueCached ==
    [][/\ \A t \in Threads :
            (pc[t].at = "construct" /\ pc'[t].at = "assign") =>
                \A n \in FactoryNames(pc[t].cls) \ Overridden(pc[t].cls) :
                    /\ invoked'[pc'[t].obj][n] = 0
                    /\ Slot(objs'[pc'[t].obj], n) = <<>>
       /\ \A o \in 1..Len(objs) :
            \A n \in FactoryNames(objs[o].cls) \ Overridden(objs[o].cls) :
                /\ (result'.op = "read" /\ result'.obj = o /\ result'.name = n) =>
                      /\ Slot(objs'[o], n) = <<result'.val>>
                      /\ Slot(objs[o], n) # <<>> => result'.val = objs[o].dict[n]
                /\ Slot(objs[o], n) # <<>> =>
                      \/ Slot(objs'[o], n) = Slot(objs[o], n)
                      \/ result'.op \in {"set_dict", "parse"} /\ result'.obj = o]_vars

\* the second read of key has returned the value of the first read, while the
\* factory, run again for this read, produced another value
FactoryValueCachedWitness ==
    /\ result.op = "read"
    /\ result.name = "key"
    /\ "APP_KEY" \notin DOMAIN env
    /\ invoked[result.obj]["key"] = 2
    /\ result.val = FactoryResult(1, 0)
    /\ FactoryResult(1, 1) # result.val

\* C16: no step of any operation, and no later class statement, changes an
\* entry of the registry of a class that is defined.
RegistryFixed ==
    [][\A c \in DOMAIN classes :
          /\ c \in DOMAIN classes'
          /\ classes'[c].config_params = classes[c].config_params]_vars

\* a subclass of A has re-declared port with another value after set_dict
\* wrote port on the instance of A, and A's entry for port has its default
RegistryFixedWitness ==
    /\ result.op = "class"
    /\ result.bases = <<"A">>
    /\ "port" \in DOMAIN result.body
    /\ Registry(result.cls)["port"].value # Registry("A")["port"].value
    /\ Registry("A")["port"] = ParamPool[1]
    /\ \E o \in 1..Len(objs) : objs[o].cls = "A" /\ Slot(objs[o], "port") = <<IntV(5)>>

\* the parameters of c whose environment string the converter refuses
Failing(c) == {n \in Overridden(c) : EnvConvert(c, n).exc # ""}

\* C17: a construction whose converter fails on an environment string ends
\* in that error, creates no object and stores no instance; a construction
\* that completes creates an object with every applicable override applied;
\* and the instance a class stores, which is what every call returns, is such
\* a completely constructed object.
ConstructionAllOrNothing ==
    [][\A t \in Threads :
          /\ (pc[t].at = "construct" /\ pc[t].nargs = 0 /\ pc'[t] # pc[t]) =>
                IF Failing(pc[t].cls) # {}
                THEN /\ result'.exc \in {EnvConvert(pc[t].cls, n).exc : n \in Failing(pc[t].cls)}
                     /\ objs' = objs
                     /\ instance' = instance
                     /\ instance[pc[t].cls] = 0
                     /\ pc'[t] = Idle
                ELSE /\ result'.exc = ""
                     /\ pc'[t].at = "assign"
                     /\ pc'[t].obj = Len(objs) + 1
                     /\ Len(objs') = Len(objs) + 1
                     /\ \A n \in DOMAIN Registry(pc[t].cls) :
                           Slot(objs'[Len(objs')], n) =
                               IF n \in Overridden(pc[t].cls)
                               THEN <<EnvConvert(pc[t].cls, n).val>> ELSE <<>>
          /\ \A c \in DOMAIN instance :
                instance'[c] # instance[c] =>
                    \E u \in Threads : pc[u].at = "assign" /\ pc[u].cls = c /\ pc[u].obj = instance'[c]
          /\ (pc[t].at = "return" /\ pc'[t].at = "idle") =>
                pc'[t].ret = instance[pc[t].cls] /\ pc'[t].ret # 0]_vars

\* a construction has failed on APP_KEY=x while APP_PORT=7 converts: nothing
\* is stored, no object with the port override alone exists
ConstructionAllOrNothingWitness ==
    /\ result.op = "construct"
    /\ result.exc = "ValueError"
    /\ EnvGet("APP_PORT") = "7"
    /\ EnvGet("APP_KEY") = "x"
    /\ instance[result.cls] = 0
    /\ objs = <<>>

\* C18: a parse that ends in an error raised while handling a flag leaves the
\* instance's slot of that flag as it was.
FlagErrorBeforeWrite ==
    [][(result'.op = "parse" /\ result'.exc # "") =>
          Slot(objs'[result'.obj], result'.flag) = Slot(objs[result'.obj], result'.flag)]_vars

\* the keys of the mapping set_dict was given that the registry of the
\* object's class lacks
UnknownKeys(r) == {n \in DOMAIN r.data : n \notin DOMAIN Registry(objs[r.obj].cls)}

\* C19 as claimed: set_dict with a mapping that has a key absent from the
\* registry raises no error.
UnknownKeyNoError ==
    (result.op = "set_dict" /\ UnknownKeys(result) # {}) => result.exc = ""

\* C19 as amended: set_dict with a mapping that has a key absent from the
\* registry raises KeyError and gives the instance no slot for that key; it
\* changes no slot other than those of the registered keys of the mapping.
UnknownKeyRaises ==
    [][\A o \in 1..Len(objs) :
          (result'.op = "set_dict" /\ result'.obj = o /\ UnknownKeys(result') # {}) =>
              /\ result'.exc = "KeyError"
              /\ \A n \in UnknownKeys(result') : Slot(objs'[o], n) = <<>>
              /\ \A n \in DOMAIN objs'[o].dict :
                    \/ Slot(objs'[o], n) = Slot(objs[o], n)
                    \/ n \in DOMAIN result'.data /\ Slot(objs'[o], n) = <<result'.data[n]>>]_vars

\* set_dict({'port': 5, 'bogus': 5}) has raised KeyError on an instance whose
\* port slot holds 5
UnknownKeyRaisesWitness ==
    /\ result.op = "set_dict"
    /\ result.exc = "KeyError"
    /\ DOMAIN result.data = {"port", "bogus"}
    /\ Slot(objs[result.obj], "port") = <<IntV(5)>>
    /\ Slot(objs[result.obj], "bogus") = <<>>

\* C20: a call of a class returns an object of that class, so a class and its
\* subclass have two instances, whichever is constructed first; and a step
\* that constructs an instance (environment overrides), or that writes one
\* with set_dict or a parsed flag, changes no slot of another instance and no
\* value read through it.
SingletonsIsolated ==
    [][/\ \A t \in Threads :
            (pc[t].at = "return" /\ pc'[t].at = "idle") =>
                /\ pc'[t].ret # 0
                /\ objs[pc'[t].ret].cls = pc[t].cls
       /\ \A c, d \in DOMAIN instance' :
            (c # d /\ instance'[c] # 0) => instance'[c] # instance'[d]
       /\ \A o \in 1..Len(objs) :
            (result'.op \in {"construct", "set_dict", "parse"} /\
             ~(result'.op \in {"set_dict", "parse"} /\ result'.obj = o)) =>
                /\ objs'[o] = objs[o]
                /\ \A n \in DOMAIN Registry(objs[o].cls) :
                      (ReadParam(o, n).val)' = ReadParam(o, n).val]_vars

\* B was constructed before A, set_dict has written port on the instance of
\* A, whose construction applied APP_PORT=7, and the instance of B reads port
\* as its own override
SingletonsIsolatedWitness ==
    /\ instance["B"] = 1
    /\ instance["A"] = 2
    /\ result.op = "set_dict"
    /\ result.obj = 2
    /\ Slot(objs[2], "port") = <<IntV(5)>>
    /\ Slot(objs[1], "port") = <<IntV(7)>>
    /\ ReadParam(1, "port").val = IntV(7)

====
